---- MODULE Spec2Model ----
(***************************************************************************)
(* Model of the Recortes repository.                                       *)
(*                                                                         *)
(*   procesa_enumeracion.py : the pagination engine (get_file_groups,      *)
(*                            update_records, verify_updates, main)        *)
(*   procesa_recortes.py    : the crop pipeline (get_records_to_process,   *)
(*                            process_image, backup_failed_image,          *)
(*                            process_all, main)                           *)
(*                                                                         *)
(* SpecPag is the pagination run over a bounded Codificacion table.        *)
(* SpecPagNested is the same run over directories that hold a              *)
(* subdirectory.                                                           *)
(* SpecCrop is the crop run over a Codificacion table that a committed     *)
(* pagination run produced and a bounded ListadoMuestraCodificacion; a run *)
(* may be interrupted at any field.                                        *)
(* SpecGeom applies inches_to_pixels and the slice of process_image to a   *)
(* bounded set of rectangles, resolutions and image shapes.                *)
(* SpecNorm applies normalize_path, repeatedly, to the strings of a        *)
(* bounded length over a small alphabet; os.path is ntpath.                *)
(*                                                                         *)
(* Strings are sequences of one-character strings.  A path is the sequence *)
(* of its segments, each a number standing for a one-character name, so    *)
(* that the order of the sequences is the order of the path strings.       *)
(* None / NULL is the value None.  NULL of an integer column is NullPage.  *)
(***************************************************************************)
EXTENDS Integers, Sequences, FiniteSets, TLC

VARIABLES
    \* ---- pagination engine (procesa_enumeracion.py) ----
    pc,               \* position of main / update_records
    codificacion,     \* table Codificacion as committed: Id -> row
    txn,              \* table Codificacion as the open connection sees it
    groups,           \* get_file_groups' result, in dict insertion order
    gi, fi,           \* update_records: group and file being visited (1-based)
    current_page, current_barcode, total_documents, updates,
    k,                \* executemany: next tuple of updates to be applied
    result,           \* update_records' return value, <<>> before it returns
    \* ---- crop pipeline (procesa_recortes.py) ----
    cpc,              \* position of main / process_all / process_image
    listado,          \* table ListadoMuestraCodificacion: key -> row
    listado0,         \* the table as it was when the run started
    outFiles,         \* the output directory: path -> "absent", "empty", "ok"
    run,              \* number of the run of the program (1-based)
    records,          \* process_all: the job list
    idx,              \* process_all: the record being visited (1-based)
    processed, errors,
    cause,            \* process_image: the step that raised, "none" if none
    output_path,      \* process_image: the destination path, None before
    outcome,          \* per visited record of this run: "ok" or "error"
    writes,           \* per output path: files written there by this run
    dbUpdates,        \* per key: RutaRecorte updates committed by this run
    quarantine,       \* 'errores': <<record index, "image" or "note">> of this run
    prev,             \* <<processed, errors>> of the run before, <<>> if it had no summary
    exit_code,        \* main's return value, -1 before it returns
    \* ---- the pure functions of both programs, applied on their own ----
    fpc,              \* position of the function under study
    arg,              \* its input
    ret               \* what it has computed so far, <<>> before

pagVars == <<pc, codificacion, txn, groups, gi, fi, current_page,
             current_barcode, total_documents, updates, k, result>>

cropVars == <<cpc, listado, listado0, outFiles, run, records, idx, processed,
              errors, cause, output_path, outcome, writes, dbUpdates,
              quarantine, prev, exit_code>>

fnVars == <<fpc, arg, ret>>

vars == <<pagVars, cropVars, fnVars>>

----------------------------------------------------------------------------
(* Values *)

None == <<"None">>
NullPage == 0

\* Bounds of the pagination inputs.
FilesPerDir == 3
MaxFiles == 3

B1 == <<"B", "1">>
EX02 == <<"E", "X", "0", "2">>
\* BarcodeC39 as stored: NULL, the empty string, a 2- and a 4-character code.
BarcodeValues == {None, <<>>, B1, EX02}

\* Ruta of a scanned file: <<directory, file name>>, in two directories.
Dirs == {1, 2}
Paths == {<<d, f>> : d \in Dirs, f \in 1..FilesPerDir}

\* Codificacion.Id of the row of a path (an identity column: one per row).
IdOf(p) == 10 * p[1] + p[2]

\* Python truthiness of a str-or-None value: bool(x), `if x`.
Truthy(v) == v # None /\ Len(v) > 0

\* s[:3]
Slice3(s) == SubSeq(s, 1, IF Len(s) < 3 THEN Len(s) ELSE 3)

\* os.path.dirname
Dirname(p) == SubSeq(p, 1, Len(p) - 1)

\* p < q as strings (ORDER BY Ruta, list.sort(key=ruta)).
RECURSIVE PathLess(_, _)
PathLess(p, q) ==
    IF p = <<>> THEN q # <<>>
    ELSE IF q = <<>> THEN FALSE
    ELSE IF Head(p) # Head(q) THEN Head(p) < Head(q)
    ELSE PathLess(Tail(p), Tail(q))

----------------------------------------------------------------------------
(* get_file_groups *)

\* SELECT Id, Ruta, BarcodeC39 FROM Codificacion ORDER BY Ruta
RECURSIVE OrderByRuta(_)
OrderByRuta(rows) ==
    IF rows = {} THEN <<>>
    ELSE LET first == CHOOSE r \in rows :
                          \A o \in rows \ {r} : PathLess(r.Ruta, o.Ruta)
         IN  <<first>> \o OrderByRuta(rows \ {first})

SelectCodificacion(table) ==
    OrderByRuta({[Id |-> id, Ruta |-> table[id].Ruta,
                  BarcodeC39 |-> table[id].BarcodeC39] : id \in DOMAIN table})

\* The dict built from one row.
FileOf(row) ==
    [id |-> row.Id, ruta |-> row.Ruta, barcode |-> row.BarcodeC39,
     has_barcode |-> Truthy(row.BarcodeC39)]

\* groups[directory].append(...) for every row, in fetch order; a directory
\* enters the dict when its first row is met.
RECURSIVE GroupRows(_, _)
GroupRows(rows, acc) ==
    IF rows = <<>> THEN acc
    ELSE LET row == Head(rows)
             directory == Dirname(row.Ruta)
             at == {i \in 1..Len(acc) : acc[i].directory = directory}
         IN  GroupRows(Tail(rows),
                 IF at = {}
                 THEN Append(acc, [directory |-> directory,
                                   files |-> <<FileOf(row)>>])
                 ELSE LET i == CHOOSE i \in at : TRUE
                      IN  [acc EXCEPT ![i].files = Append(@, FileOf(row))])

\* list.sort(key=lambda x: x['ruta']): a stable insertion.
RECURSIVE SortByRuta(_)
SortByRuta(files) ==
    IF files = <<>> THEN <<>>
    ELSE LET rest == SortByRuta(SubSeq(files, 1, Len(files) - 1))
             x == files[Len(files)]
             n == Cardinality({i \in 1..Len(rest) :
                                  ~ PathLess(x.ruta, rest[i].ruta)})
         IN  SubSeq(rest, 1, n) \o <<x>> \o SubSeq(rest, n + 1, Len(rest))

get_file_groups(table) ==
    LET g == GroupRows(SelectCodificacion(table), <<>>)
    IN  [i \in 1..Len(g) |-> [g[i] EXCEPT !.files = SortByRuta(@)]]

----------------------------------------------------------------------------
(* update_records: the loop *)

\* Line 105: current_page = 1 at the start of every directory group.
StartGroupKeepPage(st) == st
StartGroupResetBarcode(st) ==
    [st EXCEPT !.current_page = 1, !.current_barcode = None]
StartGroup(st) == [st EXCEPT !.current_page = 1]

\* Lines 110-113: a file with a barcode starts a new document.
NewDocumentNoPageReset(st, file) ==
    IF file.has_barcode
    THEN [st EXCEPT !.current_barcode = file.barcode,
                    !.total_documents = @ + 1]
    ELSE st
NewDocument(st, file) ==
    IF file.has_barcode
    THEN [st EXCEPT !.current_page = 1,
                    !.current_barcode = file.barcode,
                    !.total_documents = @ + 1]
    ELSE st

\* Line 117: codigo_examen = current_barcode if current_barcode else None
CodigoExamen(barcode) == IF Truthy(barcode) THEN barcode ELSE None

\* Line 118: prefijo = codigo_examen[:3] if codigo_examen else None
PrefijoWholeCode(codigo_examen) ==
    IF Truthy(codigo_examen) THEN codigo_examen ELSE None
Prefijo(codigo_examen) ==
    IF Truthy(codigo_examen) THEN Slice3(codigo_examen) ELSE None

\* Line 130: current_page += 1
NextPageStuck(page) == page
NextPage(page) == page + 1

\* A tuple only for the files that have an exam code.
AssignFileWithCodeOnly(st, file) ==
    LET s == NewDocument(st, file)
        codigo_examen == CodigoExamen(s.current_barcode)
        prefijo == Prefijo(codigo_examen)
    IN  IF codigo_examen = None THEN s
        ELSE [s EXCEPT !.updates = Append(@, <<s.current_page, codigo_examen,
                                               prefijo, file.id>>),
                       !.current_page = NextPage(@)]

\* Lines 108-130: one iteration of `for file in files`.
AssignFile(st, file) ==
    LET s == NewDocument(st, file)
        codigo_examen == CodigoExamen(s.current_barcode)
        prefijo == Prefijo(codigo_examen)
    IN  [s EXCEPT !.updates = Append(@, <<s.current_page, codigo_examen,
                                          prefijo, file.id>>),
                  !.current_page = NextPage(@)]

\* UPDATE Codificacion SET NumeroPagina = ?, CodigoExamen = ?, Prefijo = ?
\* WHERE Id = ?
ApplyUpdate(table, u) ==
    [id \in DOMAIN table |->
        IF id = u[4]
        THEN [table[id] EXCEPT !.NumeroPagina = u[1], !.CodigoExamen = u[2],
                               !.Prefijo = u[3]]
        ELSE table[id]]

\* connection.rollback(): the connection sees the committed table again.
RollbackKeepsPartial(committed, seen) == seen
Rollback(committed, seen) == committed

\* connection.commit()
Commit(committed, seen) == seen

----------------------------------------------------------------------------
(* The pagination run *)

\* A Codificacion table before pagination: one row per chosen path.
NewRow(p, barcode) ==
    [Ruta |-> p, BarcodeC39 |-> barcode, NumeroPagina |-> NullPage,
     CodigoExamen |-> None, Prefijo |-> None]

TableOf(files, barcodeOf) ==
    [id \in {IdOf(p) : p \in files} |->
        LET p == CHOOSE q \in files : IdOf(q) = id
        IN  NewRow(p, barcodeOf[p])]

InputTables ==
    UNION {{TableOf(files, b) : b \in [files -> BarcodeValues]} :
              files \in {F \in SUBSET Paths : Cardinality(F) <= MaxFiles}}

\* No function is applied on its own.
FnIdle ==
    /\ fpc = "idle"
    /\ arg = <<>>
    /\ ret = <<>>

\* The crop program is not running and its tables are empty.
CropIdle ==
    /\ cpc = "idle"
    /\ listado = <<>> /\ listado0 = <<>>
    /\ outFiles = <<>>
    /\ run = 0
    /\ records = <<>>
    /\ idx = 0 /\ processed = 0 /\ errors = 0
    /\ cause = "none"
    /\ output_path = None
    /\ outcome = <<>>
    /\ writes = <<>> /\ dbUpdates = <<>>
    /\ quarantine = {}
    /\ prev = <<>>
    /\ exit_code = -1

InitPag ==
    /\ codificacion \in InputTables
    /\ txn = codificacion
    /\ pc = "main"
    /\ groups = <<>>
    /\ gi = 0 /\ fi = 0 /\ k = 0
    /\ current_page = 0
    /\ current_barcode = None
    /\ total_documents = 0
    /\ updates = <<>>
    /\ result = <<>>
    /\ CropIdle
    /\ FnIdle

Locals == [current_page |-> current_page, current_barcode |-> current_barcode,
           total_documents |-> total_documents, updates |-> updates]

SetLocals(st) ==
    /\ current_page' = st.current_page
    /\ current_barcode' = st.current_barcode
    /\ total_documents' = st.total_documents
    /\ updates' = st.updates

\* main, lines 188-195: the groups are loaded and update_records is entered
\* (lines 98-101); an empty result makes main return.
GetFileGroups ==
    /\ pc = "main"
    /\ groups' = get_file_groups(codificacion)
    /\ IF groups' = <<>>
       THEN /\ pc' = "done"
            /\ UNCHANGED <<gi, current_page, current_barcode,
                           total_documents, updates>>
       ELSE /\ pc' = "for_group"
            /\ gi' = 1
            /\ SetLocals([current_page |-> current_page,
                          current_barcode |-> None,
                          total_documents |-> 0, updates |-> <<>>])
    /\ UNCHANGED <<codificacion, txn, fi, k, result>>
    /\ UNCHANGED <<cropVars, fnVars>>

\* get_file_groups, lines 81-83: the query fails, None is returned and main
\* returns.
GetFileGroupsError ==
    /\ pc = "main"
    /\ pc' = "done"
    /\ UNCHANGED <<codificacion, txn, groups, gi, fi, current_page,
                   current_barcode, total_documents, updates, k, result>>
    /\ UNCHANGED <<cropVars, fnVars>>

\* Lines 104-105: the next directory group is entered, or the loop ends.
ForGroup ==
    /\ pc = "for_group"
    /\ IF gi <= Len(groups)
       THEN /\ SetLocals(StartGroup(Locals))
            /\ fi' = 1
            /\ pc' = "for_file"
            /\ k' = k
       ELSE /\ pc' = "executemany"
            /\ k' = 1
            /\ UNCHANGED <<fi, current_page, current_barcode,
                           total_documents, updates>>
    /\ UNCHANGED <<codificacion, txn, groups, gi, result>>
    /\ UNCHANGED <<cropVars, fnVars>>

\* Lines 108-130: one file of the group.
ForFile ==
    /\ pc = "for_file"
    /\ SetLocals(AssignFile(Locals, groups[gi].files[fi]))
    /\ IF fi < Len(groups[gi].files)
       THEN fi' = fi + 1 /\ gi' = gi /\ pc' = "for_file"
       ELSE fi' = fi /\ gi' = gi + 1 /\ pc' = "for_group"
    /\ UNCHANGED <<codificacion, txn, groups, k, result>>
    /\ UNCHANGED <<cropVars, fnVars>>

\* Line 134: executemany applies one tuple inside the open transaction.
ExecuteTuple ==
    /\ pc = "executemany"
    /\ k <= Len(updates)
    /\ txn' = ApplyUpdate(txn, updates[k])
    /\ k' = k + 1
    /\ UNCHANGED <<pc, codificacion, groups, gi, fi, current_page,
                   current_barcode, total_documents, updates, result>>
    /\ UNCHANGED <<cropVars, fnVars>>

\* Lines 134-135 raise pyodbc.Error (at a tuple, or at the commit);
\* lines 139-142: rollback, return 0, 0.
UpdateError ==
    /\ pc = "executemany"
    /\ txn' = Rollback(codificacion, txn)
    /\ result' = <<0, 0>>
    /\ pc' = "verify"
    /\ UNCHANGED <<codificacion, groups, gi, fi, current_page,
                   current_barcode, total_documents, updates, k>>
    /\ UNCHANGED <<cropVars, fnVars>>

\* Lines 135-138: commit, return len(updates), total_documents.
CommitUpdates ==
    /\ pc = "executemany"
    /\ k > Len(updates)
    /\ codificacion' = Commit(codificacion, txn)
    /\ result' = <<Len(updates), total_documents>>
    /\ pc' = "verify"
    /\ UNCHANGED <<txn, groups, gi, fi, current_page, current_barcode,
                   total_documents, updates, k>>
    /\ UNCHANGED <<cropVars, fnVars>>

\* main, lines 199-209: verify_updates reads the table, the summary is
\* logged and the connection is closed, which ends any open transaction.
VerifyAndClose ==
    /\ pc = "verify"
    /\ txn' = Rollback(codificacion, txn)
    /\ pc' = "done"
    /\ UNCHANGED <<codificacion, groups, gi, fi, current_page,
                   current_barcode, total_documents, updates, k, result>>
    /\ UNCHANGED <<cropVars, fnVars>>

NextPag ==
    \/ GetFileGroups
    \/ GetFileGroupsError
    \/ ForGroup
    \/ ForFile
    \/ ExecuteTuple
    \/ UpdateError
    \/ CommitUpdates
    \/ VerifyAndClose

SpecPag == InitPag /\ [][NextPag]_vars

----------------------------------------------------------------------------
(* The tables the crop pipeline reads *)

\* update_records' loop over all groups, and its bulk update committed.
RECURSIVE RunFiles(_, _)
RunFiles(st, files) ==
    IF files = <<>> THEN st
    ELSE RunFiles(AssignFile(st, Head(files)), Tail(files))

RECURSIVE RunGroups(_, _)
RunGroups(st, gs) ==
    IF gs = <<>> THEN st
    ELSE RunGroups(RunFiles(StartGroup(st), Head(gs).files), Tail(gs))

RECURSIVE ApplyAll(_, _)
ApplyAll(table, us) ==
    IF us = <<>> THEN table
    ELSE ApplyAll(ApplyUpdate(table, Head(us)), Tail(us))

update_records(table) ==
    ApplyAll(table,
             RunGroups([current_page |-> 0, current_barcode |-> None,
                        total_documents |-> 0, updates |-> <<>>],
                       get_file_groups(table)).updates)

\* Bounds of the crop inputs.
MaxCropFiles == 2
MaxListado == 2
MaxJobs == 2
MaxRuns == 2

\* Tbl_Fields.ID
FieldIds == {1}

\* The scanned files of the crop inputs: two in one directory, one in another.
CropPaths == {<<1, 1>>, <<1, 2>>, <<2, 1>>}

\* The columns of Codificacion that the crop query reads (Id is the key).
CropColumns(table) ==
    [id \in DOMAIN table |->
        [Ruta |-> table[id].Ruta, CodigoExamen |-> table[id].CodigoExamen,
         NumeroPagina |-> table[id].NumeroPagina]]

\* Codificacion as a committed pagination run leaves it.
PaginatedTables ==
    {CropColumns(update_records(TableOf(files, b))) :
        <<files, b>> \in
            UNION {{<<F, c>> : c \in [F -> BarcodeValues]} :
                      F \in {G \in SUBSET CropPaths :
                                Cardinality(G) \in 1..MaxCropFiles}}}

\* main, line 421
output_directory == <<"D:", "RECORTES_FINALES">>

\* Lines 84-113: base directory / Operativo / Area / cod_item / NombreArchivo.
create_hierarchical_directories(record) ==
    output_directory \o
        <<record.Operativo, record.Area, record.cod_item, record.NombreArchivo>>

\* A row of ListadoMuestraCodificacion keyed by (cod_barra, NumeroPagina,
\* Field_id); each row names its own output file.
ListadoRow(key, done) ==
    LET naming == [Operativo |-> "OP", Area |-> "AR", cod_item |-> "IT",
                   NombreArchivo |-> key]
    IN  [Operativo |-> naming.Operativo, Area |-> naming.Area,
         cod_item |-> naming.cod_item, NombreArchivo |-> naming.NombreArchivo,
         RutaRecorte |-> IF done THEN create_hierarchical_directories(naming)
                         ELSE None]

\* The listing holds fields of document pages that Codificacion holds.
CandidateKeys(cod) ==
    {<<cod[id].CodigoExamen, cod[id].NumeroPagina, f>> :
        id \in {i \in DOMAIN cod : cod[i].CodigoExamen # None}, f \in FieldIds}

ListadoTables(cod) ==
    UNION {{[key \in K |-> ListadoRow(key, done[key])] : done \in [K -> BOOLEAN]} :
              K \in {L \in SUBSET CandidateKeys(cod) : Cardinality(L) <= MaxListado}}

----------------------------------------------------------------------------
(* get_records_to_process *)

\* WHERE l.RutaRecorte IS NULL
PendingAll(row) == TRUE
Pending(row) == row.RutaRecorte = None

\* The join of lines 258-261, one record per (listing row, Codificacion row).
JoinRows(lst, cod) ==
    {[cod_barra |-> m[1][1], NumeroPagina |-> m[1][2], Field_id |-> m[1][3],
      Operativo |-> lst[m[1]].Operativo, Area |-> lst[m[1]].Area,
      cod_item |-> lst[m[1]].cod_item, NombreArchivo |-> lst[m[1]].NombreArchivo,
      Ruta |-> cod[m[2]].Ruta, CodificacionId |-> m[2]] :
        m \in {n \in (DOMAIN lst) \X (DOMAIN cod) :
                  /\ Pending(lst[n[1]])
                  /\ cod[n[2]].CodigoExamen # None
                  /\ cod[n[2]].CodigoExamen = n[1][1]
                  /\ cod[n[2]].NumeroPagina = n[1][2]}}

\* ORDER BY c.Id, l.cod_barra: every order of the rows the sort key allows
\* (cod_barra is the same for the rows of one c.Id).
get_records_to_process(lst, cod) ==
    LET rows == JoinRows(lst, cod)
        n == Cardinality(rows)
    IN  {r \in [1..n -> rows] :
            /\ \A i, j \in 1..n : i # j => r[i] # r[j]
            /\ \A i, j \in 1..n :
                  i < j => r[i].CodificacionId <= r[j].CodificacionId}

KeyOf(record) == <<record.cod_barra, record.NumeroPagina, record.Field_id>>

\* The update without its commit: it is gone with the connection.
UpdateWithoutCommit(lst, record, full_path) == lst

\* Lines 128-140: UPDATE ListadoMuestraCodificacion SET RutaRecorte = ?
\* WHERE cod_barra = ? AND NumeroPagina = ? AND Field_id = ?, committed.
update_recorte_path(lst, record, full_path) ==
    [key \in DOMAIN lst |->
        IF key = KeyOf(record)
        THEN [lst[key] EXCEPT !.RutaRecorte = full_path]
        ELSE lst[key]]

\* process_all, lines 400-403: errors += 1; continue.  The index of the
\* record visited next, n being the number of records.
AbortAfterError(i, n) == n + 1
NextAfterError(i, n) == i + 1

----------------------------------------------------------------------------
(* The crop run *)

PaginationIdle ==
    /\ txn = codificacion
    /\ pc = "done"
    /\ groups = <<>>
    /\ gi = 0 /\ fi = 0 /\ k = 0
    /\ current_page = 0
    /\ current_barcode = None
    /\ total_documents = 0
    /\ updates = <<>>
    /\ result = <<>>

OutputPaths(lst) == {create_hierarchical_directories(lst[key]) : key \in DOMAIN lst}

InitCrop ==
    /\ codificacion \in PaginatedTables
    /\ PaginationIdle
    /\ FnIdle
    /\ listado \in ListadoTables(codificacion)
    /\ Cardinality(JoinRows(listado, codificacion)) <= MaxJobs
    /\ listado0 = listado
    /\ outFiles = [path \in OutputPaths(listado) |->
                      IF \E key \in DOMAIN listado : listado[key].RutaRecorte = path
                      THEN "ok" ELSE "absent"]
    /\ run = 1
    /\ cpc = "start"
    /\ records = <<>>
    /\ idx = 0 /\ processed = 0 /\ errors = 0
    /\ cause = "none"
    /\ output_path = None
    /\ outcome = <<>>
    /\ writes = [path \in OutputPaths(listado) |-> 0]
    /\ dbUpdates = [key \in DOMAIN listado |-> 0]
    /\ quarantine = {}
    /\ prev = <<>>
    /\ exit_code = -1

\* main, lines 427 and 432-435: the constructor raises; return 1.
ConstructorError ==
    /\ cpc = "start"
    /\ cpc' = "exit"
    /\ exit_code' = 1
    /\ UNCHANGED <<listado, listado0, outFiles, run, records, idx, processed,
                   errors, cause, output_path, outcome, writes, dbUpdates,
                   quarantine, prev>>
    /\ UNCHANGED <<pagVars, fnVars>>

\* process_all, lines 386-392: the job list is loaded and the counters set.
LoadRecords ==
    /\ cpc = "start"
    /\ records' \in get_records_to_process(listado, codificacion)
    /\ idx' = 1
    /\ processed' = 0
    /\ errors' = 0
    /\ cpc' = "for_record"
    /\ UNCHANGED <<listado, listado0, outFiles, run, cause, output_path,
                   outcome, writes, dbUpdates, quarantine, prev,
                   exit_code>>
    /\ UNCHANGED <<pagVars, fnVars>>

\* get_records_to_process raises (lines 271-273); process_all re-raises
\* (lines 413-416) and main returns 1.
LoadRecordsError ==
    /\ cpc = "start"
    /\ cpc' = "exit"
    /\ exit_code' = 1
    /\ UNCHANGED <<listado, listado0, outFiles, run, records, idx, processed,
                   errors, cause, output_path, outcome, writes, dbUpdates,
                   quarantine, prev>>
    /\ UNCHANGED <<pagVars, fnVars>>

\* Line 394 and lines 278-283: the next record enters process_image and its
\* source path is validated.
ValidateImagePath ==
    /\ cpc = "for_record"
    /\ idx <= Len(records)
    /\ \/ cpc' = "decode" /\ cause' = cause
       \/ cpc' = "backup" /\ cause' = "validate"
    /\ UNCHANGED <<listado, listado0, outFiles, run, records, idx, processed,
                   errors, output_path, outcome, writes, dbUpdates,
                   quarantine, prev, exit_code>>
    /\ UNCHANGED <<pagVars, fnVars>>

\* Lines 286-292: the DPI is read (300, 300 when it cannot be) and the image
\* is decoded; cv2.imread returns None for an image it cannot decode.
DecodeImage ==
    /\ cpc = "decode"
    /\ \/ cpc' = "geometry" /\ cause' = cause
       \/ cpc' = "backup" /\ cause' = "decode"
    /\ UNCHANGED <<listado, listado0, outFiles, run, records, idx, processed,
                   errors, output_path, outcome, writes, dbUpdates,
                   quarantine, prev, exit_code>>
    /\ UNCHANGED <<pagVars, fnVars>>

\* Lines 295-303: inches to pixels and the crop; float() of a NULL
\* coordinate raises.
ConvertGeometry ==
    /\ cpc = "geometry"
    /\ \/ cpc' = "destpath" /\ cause' = cause
       \/ cpc' = "backup" /\ cause' = "geometry"
    /\ UNCHANGED <<listado, listado0, outFiles, run, records, idx, processed,
                   errors, output_path, outcome, writes, dbUpdates,
                   quarantine, prev, exit_code>>
    /\ UNCHANGED <<pagVars, fnVars>>

\* Lines 306-316: the destination path and its directories.
BuildDestination ==
    /\ cpc = "destpath"
    /\ \/ /\ output_path' = create_hierarchical_directories(records[idx])
          /\ cpc' = "write"
          /\ cause' = cause
       \/ /\ output_path' = output_path
          /\ cpc' = "backup"
          /\ cause' = "destpath"
    /\ UNCHANGED <<listado, listado0, outFiles, run, records, idx, processed,
                   errors, outcome, writes, dbUpdates, quarantine,
                   prev, exit_code>>
    /\ UNCHANGED <<pagVars, fnVars>>

\* A file is written at output_path, whole or truncated to nothing.
FileWritten ==
    /\ \E size \in {"ok", "empty"} :
          outFiles' = [outFiles EXCEPT ![output_path] = size]
    /\ writes' = [writes EXCEPT ![output_path] = @ + 1]

\* Lines 319-328: cv2.imwrite writes the file, returns False, or raises.
WritePrimary ==
    /\ cpc = "write"
    /\ \/ FileWritten /\ cpc' = "verify" /\ cause' = cause
       \/ cpc' = "fallback" /\ UNCHANGED <<outFiles, writes, cause>>
       \/ cpc' = "backup" /\ cause' = "write" /\ UNCHANGED <<outFiles, writes>>
    /\ UNCHANGED <<listado, listado0, run, records, idx, processed, errors,
                   output_path, outcome, dbUpdates, quarantine, prev,
                   exit_code>>
    /\ UNCHANGED <<pagVars, fnVars>>

\* Lines 330-333: PIL writes the file, or raises.
WriteFallback ==
    /\ cpc = "fallback"
    /\ \/ FileWritten /\ cpc' = "verify" /\ cause' = cause
       \/ cpc' = "backup" /\ cause' = "write" /\ UNCHANGED <<outFiles, writes>>
    /\ UNCHANGED <<listado, listado0, run, records, idx, processed, errors,
                   output_path, outcome, dbUpdates, quarantine, prev,
                   exit_code>>
    /\ UNCHANGED <<pagVars, fnVars>>

\* Lines 336-337: the output file must exist with a size above zero.
VerifyOutput ==
    /\ cpc = "verify"
    /\ IF outFiles[output_path] = "ok"
       THEN cpc' = "persist" /\ cause' = cause
       ELSE cpc' = "backup" /\ cause' = "verify"
    /\ UNCHANGED <<listado, listado0, outFiles, run, records, idx, processed,
                   errors, output_path, outcome, writes, dbUpdates,
                   quarantine, prev, exit_code>>
    /\ UNCHANGED <<pagVars, fnVars>>

\* Line 340 and lines 397-399: the path is stored in its own transaction,
\* process_image returns and the record is counted as processed; or the
\* update raises.
PersistPath ==
    /\ cpc = "persist"
    /\ \/ /\ listado' = update_recorte_path(listado, records[idx], output_path)
          /\ dbUpdates' = [dbUpdates EXCEPT ![KeyOf(records[idx])] = @ + 1]
          /\ processed' = processed + 1
          /\ outcome' = Append(outcome, "ok")
          /\ idx' = idx + 1
          /\ output_path' = None
          /\ cpc' = "for_record"
          /\ cause' = cause
       \/ /\ cpc' = "backup"
          /\ cause' = "persist"
          /\ UNCHANGED <<listado, dbUpdates, processed, outcome, idx,
                         output_path>>
    /\ UNCHANGED <<listado0, outFiles, run, records, errors, writes,
                   quarantine, prev, exit_code>>
    /\ UNCHANGED <<pagVars, fnVars>>

\* backup_failed_image, lines 360-380: the source image is copied, then the
\* note is written; an exception at either is logged and ends the backup.
\* The copy of a source that path validation found missing or unreadable
\* raises.
backup_failed_image(q, i, why) ==
    {q} \cup (IF why = "validate" THEN {}
              ELSE {q \cup {<<i, "image">>},
                    q \cup {<<i, "image">>, <<i, "note">>}})

\* Lines 345-350 and 400-403: the failure is logged, the image backed up,
\* the exception re-raised to process_all, which counts it and goes on.
HandleFailure ==
    /\ cpc = "backup"
    /\ quarantine' \in backup_failed_image(quarantine, idx, cause)
    /\ errors' = errors + 1
    /\ outcome' = Append(outcome, "error")
    /\ idx' = NextAfterError(idx, Len(records))
    /\ output_path' = None
    /\ cause' = "none"
    /\ cpc' = "for_record"
    /\ UNCHANGED <<listado, listado0, outFiles, run, records, processed,
                   writes, dbUpdates, prev, exit_code>>
    /\ UNCHANGED <<pagVars, fnVars>>

\* main returns 1 when a field failed.
ReturnOneOnErrors(errs) == IF errs > 0 THEN 1 ELSE 0

\* main, line 430: process_all has returned; return 0, whatever the number
\* of errors it counted.
ReturnAfterProcessAll(errs) == 0

\* Lines 405-411 and 430: the summary is logged and main returns 0.
Summary ==
    /\ cpc = "for_record"
    /\ idx > Len(records)
    /\ cpc' = "exit"
    /\ exit_code' = ReturnAfterProcessAll(errors)
    /\ UNCHANGED <<listado, listado0, outFiles, run, records, idx, processed,
                   errors, cause, output_path, outcome, writes, dbUpdates,
                   quarantine, prev>>
    /\ UNCHANGED <<pagVars, fnVars>>

\* The run is interrupted while a field is being processed (the process
\* is killed, the machine stops): nothing more is done; what was committed
\* and what was written stays.
Crash ==
    /\ cpc \in {"for_record", "decode", "geometry", "destpath", "write",
                "fallback", "verify", "persist", "backup"}
    /\ idx <= Len(records)
    /\ cpc' = "crashed"
    /\ UNCHANGED <<listado, listado0, outFiles, run, records, idx, processed,
                   errors, cause, output_path, outcome, writes, dbUpdates,
                   quarantine, prev, exit_code>>
    /\ UNCHANGED <<pagVars, fnVars>>

\* The program is run again over the tables and files the last run left.
RunAgain ==
    /\ cpc \in {"exit", "crashed"}
    /\ run < MaxRuns
    /\ run' = run + 1
    /\ prev' = IF exit_code = 0 THEN <<processed, errors>> ELSE <<>>
    /\ listado0' = listado
    /\ cpc' = "start"
    /\ records' = <<>>
    /\ idx' = 0 /\ processed' = 0 /\ errors' = 0
    /\ outcome' = <<>>
    /\ writes' = [path \in DOMAIN writes |-> 0]
    /\ dbUpdates' = [key \in DOMAIN dbUpdates |-> 0]
    /\ quarantine' = {}
    /\ exit_code' = -1
    /\ cause' = "none"
    /\ output_path' = None
    /\ UNCHANGED <<listado, outFiles>>
    /\ UNCHANGED <<pagVars, fnVars>>

NextCrop ==
    \/ ConstructorError
    \/ LoadRecords
    \/ LoadRecordsError
    \/ ValidateImagePath
    \/ DecodeImage
    \/ ConvertGeometry
    \/ BuildDestination
    \/ WritePrimary
    \/ WriteFallback
    \/ VerifyOutput
    \/ PersistPath
    \/ HandleFailure
    \/ Summary
    \/ Crash
    \/ RunAgain

SpecCrop == InitCrop /\ [][NextCrop]_vars

----------------------------------------------------------------------------
(* Properties of the pagination engine *)

Max(S) == CHOOSE x \in S : \A y \in S : y <= x

\* The files in processing order: groups in iteration order, the files of a
\* group in list order; g is the group's index and j the file's index in it.
FlatFiles ==
    LET F[g \in 0..Len(groups)] ==
            IF g = 0 THEN <<>>
            ELSE F[g - 1] \o [j \in 1..Len(groups[g].files) |->
                                 [g |-> g, j |-> j, file |-> groups[g].files[j]]]
    IN  F[Len(groups)]

\* The file carries a barcode: its BarcodeC39 is a non-empty string.
Barcoded(file) == file.barcode # None /\ file.barcode # <<>>

\* The loop of update_records has visited every file.
LoopDone == pc \in {"executemany", "verify", "done"} /\ groups # <<>>

\* The tuples are produced in processing order, one per visited file.
TuplesFollowFiles ==
    /\ Len(updates) <= Len(FlatFiles)
    /\ \A n \in 1..Len(updates) : updates[n][4] = FlatFiles[n].file.id

BarcodedUpTo(n) == {i \in 1..n : Barcoded(FlatFiles[i].file)}

\* No row of the table carries a pagination result.
Unpaginated(table) ==
    \A id \in DOMAIN table :
        /\ table[id].NumeroPagina = NullPage
        /\ table[id].CodigoExamen = None
        /\ table[id].Prefijo = None

\* Every tuple of the batch is in the table.
AllApplied(table) ==
    /\ Len(updates) = Cardinality(DOMAIN table)
    /\ \A n \in 1..Len(updates) :
          /\ updates[n][4] \in DOMAIN table
          /\ table[updates[n][4]].NumeroPagina = updates[n][1]
          /\ table[updates[n][4]].CodigoExamen = updates[n][2]
          /\ table[updates[n][4]].Prefijo = updates[n][3]

\* C1 as stated: once update_records has visited every group, the page
\* numbers of each group, in path order, are exactly 1, 2, ..., n.
C1_PagesAreOneToN ==
    LoopDone =>
        \A n \in 1..Len(updates) : updates[n][1] = FlatFiles[n].j

\* C1, amended: in every group the first file has page 1, and every later
\* file has page 1 when it is barcoded and its predecessor's page plus 1
\* otherwise; so the pages of a group are exactly 1..n whenever none of its
\* files after the first is barcoded.
C1_GroupPagesRestartAtBarcodes ==
    /\ TuplesFollowFiles
    /\ \A n \in 1..Len(updates) :
          LET e == FlatFiles[n]
          IN  /\ updates[n][1] =
                    IF e.j = 1 \/ Barcoded(e.file) THEN 1
                    ELSE updates[n - 1][1] + 1
              /\ (\A i \in 2..e.j : ~ Barcoded(groups[e.g].files[i]))
                    => updates[n][1] = e.j

\* Two groups were paginated, one with a barcoded file after its first.
C1_Witness ==
    /\ LoopDone
    /\ Len(groups) = 2
    /\ \E n \in 2..Len(updates) :
          /\ FlatFiles[n].j = 2
          /\ Barcoded(FlatFiles[n].file)
          /\ updates[n][1] = 1

\* The group of 3 files whose first file alone carries a barcode: pages
\* 1, 2, 3, the barcode as exam code of all three, one document counted.
ThreeFileExample ==
    \A g \in 1..Len(groups) :
        LET files == groups[g].files
            at == {n \in 1..Len(updates) : FlatFiles[n].g = g}
        IN  (/\ Len(files) = 3
             /\ Barcoded(files[1])
             /\ ~ Barcoded(files[2])
             /\ ~ Barcoded(files[3])
             /\ Cardinality(at) = 3)
            => /\ \A n \in at : /\ updates[n][1] = FlatFiles[n].j
                                /\ updates[n][2] = files[1].barcode
               /\ Len(groups) = 1 => total_documents = 1

\* C2 as stated: within each document (from a barcoded file up to the next
\* barcoded file, in processing order, across group boundaries) the pages
\* start at 1 and are strictly increasing.
C2_DocumentPagesIncreaseAcrossGroups ==
    LoopDone =>
        /\ \A n \in 1..Len(updates) :
              /\ Barcoded(FlatFiles[n].file) => updates[n][1] = 1
              /\ (~ Barcoded(FlatFiles[n].file) /\ BarcodedUpTo(n) # {})
                    => updates[n][1] > updates[n - 1][1]
        /\ ThreeFileExample

\* C2, amended: within each document the pages of the files that lie in one
\* directory group are consecutive from the document's start, 1, 2, 3, ...;
\* where the document continues into a following group the numbering
\* restarts at 1 at that group's first file.  The three-file example holds.
C2_DocumentPagesWithinGroup ==
    /\ TuplesFollowFiles
    /\ \A n \in 1..Len(updates) :
          LET e == FlatFiles[n]
              start == Max({1} \cup {i \in 1..e.j :
                                        Barcoded(groups[e.g].files[i])})
          IN  updates[n][1] = e.j - start + 1
    /\ ThreeFileExample

\* A document of two pages in the first group continues into the second
\* group, whose first file restarts at page 1 with the same exam code.
C2_Witness ==
    /\ LoopDone
    /\ Len(groups) = 2
    /\ Len(updates) = 3
    /\ Barcoded(FlatFiles[1].file)
    /\ FlatFiles[2].g = 1 /\ ~ Barcoded(FlatFiles[2].file)
    /\ FlatFiles[3].g = 2 /\ ~ Barcoded(FlatFiles[3].file)
    /\ updates[2][1] = 2
    /\ updates[3][1] = 1
    /\ updates[3][2] = FlatFiles[1].file.barcode

\* The table carries a committed pagination.
Committed == \E id \in DOMAIN codificacion :
                 codificacion[id].NumeroPagina # NullPage

\* C3 as stated: every barcoded file has page 1 and the document counter
\* that update_records returns is the number of barcoded files.
C3_ReturnedCounterCountsBarcodes ==
    result # <<>> =>
        /\ \A n \in 1..Len(updates) :
              Barcoded(FlatFiles[n].file) => updates[n][1] = 1
        /\ result[2] = Cardinality(BarcodedUpTo(Len(FlatFiles)))

\* C3, amended: every barcoded file has page 1; the document counter is
\* the number of barcoded files visited so far (it goes up by 1 at each
\* barcoded file and at no other); update_records returns that count when
\* the bulk update is committed, and 0 when the bulk update fails.
C3_BarcodeStartsDocument ==
    /\ TuplesFollowFiles
    /\ \A n \in 1..Len(updates) :
          Barcoded(FlatFiles[n].file) => updates[n][1] = 1
    /\ pc # "main" => total_documents = Cardinality(BarcodedUpTo(Len(updates)))
    /\ result # <<>> =>
          result[2] = IF Committed
                      THEN Cardinality(BarcodedUpTo(Len(FlatFiles)))
                      ELSE 0

\* A committed run that counted two documents, one of them starting after
\* the first file of its group.
C3_Witness ==
    /\ pc = "done"
    /\ Committed
    /\ result[2] = 2
    /\ \E n \in 1..Len(updates) :
          FlatFiles[n].j > 1 /\ Barcoded(FlatFiles[n].file)

\* C4: the exam code of a file is the barcode of the most recent barcoded
\* file at or before it in processing order, across group boundaries, and
\* is unset exactly for the files visited before any barcoded file.
C4_ExamCodeIsLatestBarcode ==
    /\ TuplesFollowFiles
    /\ \A n \in 1..Len(updates) :
          /\ updates[n][2] =
                IF BarcodedUpTo(n) = {} THEN None
                ELSE FlatFiles[Max(BarcodedUpTo(n))].file.barcode
          /\ updates[n][2] = None <=> BarcodedUpTo(n) = {}

\* A file before any barcode has no exam code, and the first file of the
\* second group, not barcoded, has the exam code of the first group.
C4_Witness ==
    /\ LoopDone
    /\ Len(groups) = 2
    /\ updates[1][2] = None
    /\ \E n \in 2..Len(updates) :
          /\ FlatFiles[n].g = 2 /\ FlatFiles[n].j = 1
          /\ ~ Barcoded(FlatFiles[n].file)
          /\ updates[n][2] # None
          /\ updates[n][2] = updates[n - 1][2]

\* C5: in every update tuple the prefix is the first three characters of
\* the exam code (the whole code when it is shorter) when the exam code is
\* set, and is unset when the exam code is unset.
C5_PrefixIsFirstThree ==
    \A n \in 1..Len(updates) :
        LET code == updates[n][2]
            prefix == updates[n][3]
        IN  IF code = None THEN prefix = None
            ELSE /\ prefix # None
                 /\ Len(prefix) = (IF Len(code) < 3 THEN Len(code) ELSE 3)
                 /\ \A i \in 1..Len(prefix) : prefix[i] = code[i]

\* Tuples with no exam code, with a 2-character and with a 4-character one.
C5_Witness ==
    /\ LoopDone
    /\ \E n \in 1..Len(updates) : updates[n][2] = None
    /\ \E n \in 1..Len(updates) : Len(updates[n][2]) = 4 /\ Len(updates[n][3]) = 3
    /\ \E n \in 1..Len(updates) : updates[n][2] = B1 /\ updates[n][3] = B1

\* C6: the bulk update is all or nothing.  The committed table is at every
\* moment either untouched or holds the whole batch; once the bulk update
\* has failed, the connection is rolled back to the untouched table and
\* update_records has returned (0, 0); at the end of the run nothing is
\* left uncommitted.
C6_AllOrNothing ==
    /\ \/ Unpaginated(codificacion)
       \/ AllApplied(codificacion) /\ result = <<Len(updates), total_documents>>
    /\ (result # <<>> /\ ~ Committed) =>
          /\ result = <<0, 0>>
          /\ Unpaginated(codificacion)
          /\ txn = codificacion
    /\ pc = "done" => txn = codificacion

\* The bulk update failed after it had applied some of its tuples.
C6_Witness ==
    /\ pc = "done"
    /\ result = <<0, 0>>
    /\ k > 1
    /\ Len(updates) > k

----------------------------------------------------------------------------
(* Properties of the crop pipeline *)

\* process_all is inside or past its loop.
Loaded == cpc \notin {"idle", "start"} /\ exit_code # 1

\* main has returned after process_all's summary.
Summarised == cpc = "exit" /\ exit_code = 0

Count(seq, v) == Cardinality({i \in 1..Len(seq) : seq[i] = v})

JobsOf(key) == {i \in 1..Len(records) : KeyOf(records[i]) = key}

\* C7: a failure of one field never keeps the other fields from being
\* attempted: the records are attempted once each, in order, and at the
\* summary processed + errors = total with errors the number of fields that
\* failed, whether or not the backup of the failed image worked.
C7_FailuresAreIsolated ==
    Loaded =>
        /\ Len(outcome) = idx - 1
        /\ idx <= Len(records) + 1
        /\ processed = Count(outcome, "ok")
        /\ errors = Count(outcome, "error")
        /\ Summarised =>
              /\ Len(outcome) = Len(records)
              /\ processed + errors = Len(records)

\* The first of two fields failed and nothing of it reached the quarantine;
\* the second was attempted and succeeded.
C7_Witness ==
    /\ Summarised
    /\ outcome = <<"error", "ok">>
    /\ quarantine = {}
    /\ processed = 1 /\ errors = 1

\* C8 as stated: for every field that failed, the copy of its source image
\* and its error note are in the quarantine when the batch moves on.
C8_EveryFailureIsQuarantined ==
    \A i \in 1..Len(outcome) :
        outcome[i] = "error" =>
            {<<i, "image">>, <<i, "note">>} \subseteq quarantine

\* C9 as stated: a field pending at the start of the run has exactly one
\* crop job; its output file is written and its RutaRecorte updated at most
\* once, and exactly once in a run without errors.
C9_OneJobPerPendingField ==
    Loaded =>
        \A key \in DOMAIN listado0 :
            listado0[key].RutaRecorte = None =>
                /\ Cardinality(JobsOf(key)) = 1
                /\ writes[create_hierarchical_directories(listado0[key])] <= 1
                /\ dbUpdates[key] <= 1
                /\ (Summarised /\ errors = 0) =>
                      /\ writes[create_hierarchical_directories(listado0[key])] = 1
                      /\ dbUpdates[key] = 1

\* C10: a field whose RutaRecorte was set when the run started keeps its
\* stored path, gets no job, no write of its output file and no update; and
\* a run that follows a run in which every field succeeded selects no job
\* and changes nothing.
C10_SetFieldsAreLeftAlone ==
    /\ \A key \in DOMAIN listado0 :
          listado0[key].RutaRecorte # None =>
              /\ listado[key].RutaRecorte = listado0[key].RutaRecorte
              /\ JobsOf(key) = {}
              /\ writes[listado0[key].RutaRecorte] = 0
              /\ dbUpdates[key] = 0
    /\ (Loaded /\ prev # <<>> /\ prev[2] = 0) =>
          /\ records = <<>>
          /\ listado = listado0
          /\ \A path \in DOMAIN writes : writes[path] = 0
          /\ \A key \in DOMAIN dbUpdates : dbUpdates[key] = 0
          /\ quarantine = {}

\* The second run ended, after a first run that processed two fields
\* without an error, over a listing that already had a field set.
C10_Witness ==
    /\ run = 2
    /\ prev = <<2, 0>>
    /\ Summarised
    /\ \A key \in DOMAIN listado0 : listado0[key].RutaRecorte # None

----------------------------------------------------------------------------
(* The crop geometry: inches_to_pixels and the slice of process_image *)

\* A measure in inches is the fraction <<numerator, denominator>> with a
\* positive denominator.  The measures drawn are eighths of an inch, which
\* binary floating point holds exactly, so that float(...) and the products
\* with an integer DPI are exact.
RatHalf(r) == <<r[1], 2 * r[2]>>

RatSub(r, s) == <<r[1] * s[2] - s[1] * r[2], r[2] * s[2]>>

RatTimes(r, i) == <<r[1] * i, r[2]>>

\* int() of a float rounded down whatever its sign.
intFloor(r) == r[1] \div r[2]

\* int() of a float: the fraction is cut off, towards zero.
int(r) == IF r[1] >= 0 THEN r[1] \div r[2] ELSE -((-r[1]) \div r[2])

\* inches_to_pixels, lines 201-213.
inches_to_pixels(inches, width, height, is_coordinate, dpi) ==
    IF is_coordinate
    THEN IF width # None
         THEN int(RatTimes(RatSub(inches, RatHalf(width)), dpi))
         ELSE IF height # None
              THEN int(RatTimes(RatSub(inches, RatHalf(height)), dpi))
              ELSE "ValueError"
    ELSE int(RatTimes(inches, dpi))

\* process_image, lines 295-300: the pixel rectangle of a record.
PixelRect(record, dpi) ==
    [width  |-> inches_to_pixels(record.Cord_width, None, None, FALSE, dpi[1]),
     height |-> inches_to_pixels(record.Cord_height, None, None, FALSE, dpi[2]),
     x      |-> inches_to_pixels(record.Cord_x, record.Cord_width, None,
                                 TRUE, dpi[1]),
     y      |-> inches_to_pixels(record.Cord_y, None, record.Cord_height,
                                 TRUE, dpi[2])]

\* An index of a slice, as slice.indices adjusts it for an axis of n
\* elements: a negative index counts from the end, then it is clipped.
SliceIndex(i, n) ==
    LET j == IF i < 0 THEN i + n ELSE i
    IN  IF j < 0 THEN 0 ELSE IF j > n THEN n ELSE j

\* The indices of a[start:stop] on an axis of n elements.
Slice(start, stop, n) ==
    {i \in 0..(n - 1) : SliceIndex(start, n) <= i /\ i < SliceIndex(stop, n)}

\* process_image, line 303: img[y:y+height, x:x+width], as the rows and the
\* columns of img that the crop holds; shape is <<rows, columns>>.
Crop(shape, px) ==
    [rows |-> Slice(px.y, px.y + px.height, shape[1]),
     cols |-> Slice(px.x, px.x + px.width, shape[2])]

\* get_dpi_from_image, lines 180 and 184: the DPI of an image without one.
DefaultDpi == 300

MaxEighths == 4

DpiValues == {150, DefaultDpi}

Shapes == {<<60, 100>>, <<100, 60>>}

Inches == {<<n, 8>> : n \in 0..MaxEighths}

Lengths == {<<n, 8>> : n \in 1..MaxEighths}

GeometryInputs ==
    [record : [Cord_x : Inches, Cord_y : Inches,
               Cord_width : Lengths, Cord_height : Lengths],
     dpi    : DpiValues \X DpiValues,
     shape  : Shapes]

InitGeom ==
    /\ fpc = "geometry"
    /\ arg \in GeometryInputs
    /\ ret = <<>>
    /\ codificacion = <<>>
    /\ PaginationIdle
    /\ CropIdle

\* process_image, lines 295-300.
ConvertToPixels ==
    /\ fpc = "geometry"
    /\ ret' = [px |-> PixelRect(arg.record, arg.dpi)]
    /\ fpc' = "crop"
    /\ UNCHANGED <<arg, pagVars, cropVars>>

\* process_image, line 303.
TakeCrop ==
    /\ fpc = "crop"
    /\ ret' = [px |-> ret.px, crop |-> Crop(arg.shape, ret.px)]
    /\ fpc' = "cropped"
    /\ UNCHANGED <<arg, pagVars, cropVars>>

NextGeom ==
    \/ ConvertToPixels
    \/ TakeCrop

SpecGeom == InitGeom /\ [][NextGeom]_vars

----------------------------------------------------------------------------
(* Properties of the crop geometry *)

Abs(i) == IF i < 0 THEN -i ELSE i

\* v is an integer nearest to the fraction r.
IsNearest(r, v) == 2 * Abs(v * r[2] - r[1]) <= r[2]

\* v is the fraction r with its fractional part cut off.
IsTruncation(r, v) ==
    IF r[1] >= 0
    THEN v >= 0 /\ v * r[2] <= r[1] /\ r[1] < (v + 1) * r[2]
    ELSE v <= 0 /\ (v - 1) * r[2] < r[1] /\ r[1] <= v * r[2]

Converted == fpc \in {"crop", "cropped"}

\* The four measures of the record in pixels, exactly, as fractions.
ExactWidth == RatTimes(arg.record.Cord_width, arg.dpi[1])

ExactHeight == RatTimes(arg.record.Cord_height, arg.dpi[2])

ExactX ==
    RatTimes(RatSub(arg.record.Cord_x, RatHalf(arg.record.Cord_width)),
             arg.dpi[1])

ExactY ==
    RatTimes(RatSub(arg.record.Cord_y, RatHalf(arg.record.Cord_height)),
             arg.dpi[2])

\* C11 as stated: the pixel rectangle is the four measures rounded to the
\* nearest integer, the X measures with dpiX and the Y measures with dpiY.
C11_PixelsAreRounded ==
    Converted =>
        /\ IsNearest(ExactWidth, ret.px.width)
        /\ IsNearest(ExactHeight, ret.px.height)
        /\ IsNearest(ExactX, ret.px.x)
        /\ IsNearest(ExactY, ret.px.y)

\* C11, amended: the pixel rectangle is the four measures with their
\* fractional part cut off (towards zero, also when the corner is
\* negative), the X measures with dpiX and the Y measures with dpiY.
C11_PixelsAreTruncated ==
    Converted =>
        /\ IsTruncation(ExactWidth, ret.px.width)
        /\ IsTruncation(ExactHeight, ret.px.height)
        /\ IsTruncation(ExactX, ret.px.x)
        /\ IsTruncation(ExactY, ret.px.y)

\* A rectangle at two different resolutions whose width in pixels is not
\* the nearest integer and whose corner is left of the image by a
\* fraction of a pixel that was cut off towards zero.
C11_Witness ==
    /\ Converted
    /\ arg.dpi[1] # arg.dpi[2]
    /\ ~IsNearest(ExactWidth, ret.px.width)
    /\ ret.px.x < 0
    /\ ret.px.x * ExactX[2] # ExactX[1]

\* C19 as stated: the crop is the part of the pixel rectangle
\* [x, x+width) x [y, y+height) that lies inside the image, also when the
\* rectangle overruns an edge or starts at a negative x or y.
C19_CropIsRectangleInsideImage ==
    fpc = "cropped" =>
        /\ ret.crop.rows = {i \in 0..(arg.shape[1] - 1) :
                               ret.px.y <= i /\ i < ret.px.y + ret.px.height}
        /\ ret.crop.cols = {i \in 0..(arg.shape[2] - 1) :
                               ret.px.x <= i /\ i < ret.px.x + ret.px.width}

----------------------------------------------------------------------------
(* Further properties of the pagination run *)

\* The ids of the files that get_file_groups loaded.
LoadedIds ==
    UNION {{groups[g].files[j].id : j \in 1..Len(groups[g].files)} :
              g \in 1..Len(groups)}

\* update_records returned after its commit.
Succeeded == pc \in {"verify", "done"} /\ result # <<>> /\ Committed

\* C12: once the loop of update_records has ended there is exactly one
\* update tuple for every file that get_file_groups loaded, every row of
\* Codificacion being loaded: each id once, none skipped, whatever the
\* group or the barcode of the file; and on success the reported count of
\* updated records is the number of files loaded.
C12_OneTuplePerLoadedFile ==
    LoopDone =>
        /\ LoadedIds = DOMAIN codificacion
        /\ {updates[n][4] : n \in 1..Len(updates)} = LoadedIds
        /\ \A m, n \in 1..Len(updates) : updates[m][4] = updates[n][4] => m = n
        /\ Len(updates) = Cardinality(LoadedIds)
        /\ Succeeded => result[1] = Cardinality(LoadedIds)

\* A committed run over three files in two directories, the first file
\* without a barcode and so without an exam code.
C12_Witness ==
    /\ Succeeded
    /\ Len(groups) = 2
    /\ Cardinality(LoadedIds) = 3
    /\ updates[1][2] = None
    /\ result[1] = 3

----------------------------------------------------------------------------
(* normalize_path: a path string, character by character *)

sep == "\\"

altsep == "/"

curdir == <<".">>

pardir == <<".", ".">>

\* str.lstrip and str.rstrip of the characters chars.
RECURSIVE lstrip(_, _)
lstrip(s, chars) ==
    IF s # <<>> /\ Head(s) \in chars THEN lstrip(Tail(s), chars) ELSE s

RECURSIVE rstrip(_, _)
rstrip(s, chars) ==
    IF s # <<>> /\ s[Len(s)] \in chars
    THEN rstrip(SubSeq(s, 1, Len(s) - 1), chars)
    ELSE s

\* str.strip(): the white space at both ends goes.
strip(s) == rstrip(lstrip(s, {" "}), {" "})

\* str.replace of one character by another.
replace(s, old, new) == [i \in 1..Len(s) |-> IF s[i] = old THEN new ELSE s[i]]

\* str.find(c, start): the 0-based index of the first c at or after start,
\* -1 if there is none.
find(s, c, start) ==
    LET at == {i \in start..(Len(s) - 1) : s[i + 1] = c}
    IN  IF at = {} THEN -1 ELSE CHOOSE i \in at : \A j \in at : i <= j

\* str.split(c).
RECURSIVE split(_, _)
split(s, c) ==
    LET i == find(s, c, 0)
    IN  IF i = -1 THEN <<s>>
        ELSE <<SubSeq(s, 1, i)>> \o split(SubSeq(s, i + 2, Len(s)), c)

\* c.join(parts).
RECURSIVE join(_, _)
join(c, parts) ==
    IF parts = <<>> THEN <<>>
    ELSE IF Len(parts) = 1 THEN parts[1]
    ELSE parts[1] \o <<c>> \o join(c, Tail(parts))

startswith(s, prefix) ==
    Len(s) >= Len(prefix) /\ SubSeq(s, 1, Len(prefix)) = prefix

endswith(s, suffix) ==
    Len(s) >= Len(suffix)
        /\ SubSeq(s, Len(s) - Len(suffix) + 1, Len(s)) = suffix

\* ntpath.splitdrive: <<drive or UNC share point, rest>>.  The prefix
\* \\?\UNC\ needs characters that no path of the model has.
splitdrive(p) ==
    IF Len(p) >= 2 /\ p[1] = sep /\ p[2] = sep
    THEN LET index == find(p, sep, 2)
         IN  IF index = -1 THEN <<p, <<>>>>
             ELSE LET index2 == find(p, sep, index + 1)
                  IN  IF index2 = -1 THEN <<p, <<>>>>
                      ELSE <<SubSeq(p, 1, index2),
                             SubSeq(p, index2 + 1, Len(p))>>
    ELSE IF Len(p) >= 2 /\ p[2] = ":"
         THEN <<SubSeq(p, 1, 2), SubSeq(p, 3, Len(p))>>
         ELSE <<<<>>, p>>

\* The while loop of ntpath.normpath: comps[:i] is done, the components
\* still to be visited are comps.
RECURSIVE Collapse(_, _, _)
Collapse(comps, done, rooted) ==
    IF comps = <<>> THEN done
    ELSE LET c == Head(comps)
         IN  Collapse(Tail(comps),
                 IF c = <<>> \/ c = curdir THEN done
                 ELSE IF c = pardir
                      THEN IF done # <<>> /\ done[Len(done)] # pardir
                           THEN SubSeq(done, 1, Len(done) - 1)
                           ELSE IF done = <<>> /\ rooted THEN done
                                ELSE Append(done, c)
                      ELSE Append(done, c),
                 rooted)

\* os.path.normpath of the platform the program is written for (ntpath).
normpath(path) ==
    LET p == replace(path, altsep, sep)
        sd == splitdrive(p)
        rooted == startswith(sd[2], <<sep>>)
        prefix == IF rooted THEN Append(sd[1], sep) ELSE sd[1]
        rest == IF rooted THEN lstrip(sd[2], {sep}) ELSE sd[2]
        comps == Collapse(split(rest, sep), <<>>, endswith(prefix, <<sep>>))
    IN  prefix \o join(sep, IF prefix = <<>> /\ comps = <<>>
                            THEN <<curdir>> ELSE comps)

\* The dict of lines 70-75 without its last entry.
replacementsAccentsOnly ==
    <<<<"á", "a">>, <<"é", "e">>, <<"í", "i">>, <<"ó", "o">>, <<"ú", "u">>,
      <<"Á", "A">>, <<"É", "E">>, <<"Í", "I">>, <<"Ó", "O">>, <<"Ú", "U">>,
      <<"ñ", "n">>, <<"Ñ", "N">>>>

\* The dict of lines 70-75, in insertion order.
replacements ==
    <<<<"á", "a">>, <<"é", "e">>, <<"í", "i">>, <<"ó", "o">>, <<"ú", "u">>,
      <<"Á", "A">>, <<"É", "E">>, <<"Í", "I">>, <<"Ó", "O">>, <<"Ú", "U">>,
      <<"ñ", "n">>, <<"Ñ", "N">>,
      <<" ", "_">>>>

\* Lines 76-77: for old, new in replacements.items(): path.replace(old, new).
RECURSIVE ReplaceEach(_, _)
ReplaceEach(path, reps) ==
    IF reps = <<>> THEN path
    ELSE ReplaceEach(replace(path, reps[1][1], reps[1][2]), Tail(reps))

\* Lines 65-67: the UNC branch.
RebuildUNC(path) ==
    LET parts == SelectSeq(split(path, sep), LAMBDA p : p # <<>>)
    IN  <<sep, sep>> \o join(sep, SubSeq(parts, 2, Len(parts)))

\* normalize_path, lines 60-79.
normalize_path(path) ==
    LET p1 == strip(path)
        p2 == replace(p1, "/", sep)
        p3 == normpath(p2)
        p4 == IF startswith(p3, <<sep, sep>>) THEN RebuildUNC(p3) ELSE p3
    IN  ReplaceEach(p4, replacements)

MaxPathLen == 5

MaxApplications == 3

Chars == {"a", "á", " ", "/", "."}

PathStrings == UNION {[1..n -> Chars] : n \in 0..MaxPathLen}

InitNorm ==
    /\ fpc = "normalize"
    /\ arg \in PathStrings
    /\ ret = <<>>
    /\ codificacion = <<>>
    /\ PaginationIdle
    /\ CropIdle

\* normalize_path is applied to a path.
NormalizePath ==
    /\ fpc = "normalize"
    /\ ret' = <<normalize_path(arg)>>
    /\ fpc' = "normalized"
    /\ UNCHANGED <<arg, pagVars, cropVars>>

\* normalize_path is applied to its own result, as
\* create_hierarchical_directories (lines 97, 104, 110) and process_image
\* (line 307) do.
NormalizeAgain ==
    /\ fpc = "normalized"
    /\ Len(ret) < MaxApplications
    /\ ret' = Append(ret, normalize_path(ret[Len(ret)]))
    /\ UNCHANGED <<fpc, arg, pagVars, cropVars>>

NextNorm ==
    \/ NormalizePath
    \/ NormalizeAgain

SpecNorm == InitNorm /\ [][NextNorm]_vars

----------------------------------------------------------------------------
(* Properties of normalize_path *)

\* How often the character c is in the string s.
Occurrences(s, c) == Cardinality({i \in 1..Len(s) : s[i] = c})

\* The characters that no normalized path is to have.
Forbidden ==
    {"/", " ", "á", "é", "í", "ó", "ú", "Á", "É", "Í", "Ó", "Ú", "ñ", "Ñ"}

\* The character that stands for c in a normalized path.
Plain(c) ==
    CASE c = "á" -> "a" [] c = "é" -> "e" [] c = "í" -> "i"
      [] c = "ó" -> "o" [] c = "ú" -> "u"
      [] c = "Á" -> "A" [] c = "É" -> "E" [] c = "Í" -> "I"
      [] c = "Ó" -> "O" [] c = "Ú" -> "U"
      [] c = "ñ" -> "n" [] c = "Ñ" -> "N"
      [] c = " " -> "_" [] c = "/" -> "\\"
      [] OTHER -> c

PlainString(s) == [i \in 1..Len(s) |-> Plain(s[i])]

\* The non-empty segments of a path, in order.
Segments(s) ==
    SelectSeq(split(replace(s, "/", "\\"), "\\"), LAMBDA c : c # <<>>)

\* No white space around the path, no empty segment but the one before a
\* leading separator, no trailing separator, no segment "." or "..".
Clean(s) ==
    LET comps == split(s, "/")
    IN  /\ s # <<>>
        /\ s[1] # " " /\ s[Len(s)] # " "
        /\ \A i \in 1..Len(comps) :
              /\ comps[i] = <<>> => (i = 1 /\ Len(comps) > 1)
              /\ comps[i] # curdir /\ comps[i] # pardir

NoForbidden(s) == \A i \in 1..Len(s) : s[i] \notin Forbidden

C20_NormalizeIsIdempotent ==
    fpc = "normalized" =>
        /\ \A i \in 1..Len(ret) : ret[i] = ret[1]
        /\ LET segs == Segments(strip(arg))
           IN  (/\ segs # <<>>
                /\ \A i \in 1..Len(segs) : segs[i] # curdir /\ segs[i] # pardir)
               => Segments(ret[1]) = [i \in 1..Len(segs) |-> PlainString(segs[i])]

----------------------------------------------------------------------------
(* Further properties of the crop run *)

\* C14: main returns 1 only when the constructor or the loading of the job
\* list raised, before any field was attempted; once the job list is loaded
\* main returns 0, however many fields failed.
C14_ExitCodeIgnoresFieldFailures ==
    /\ exit_code \in {-1, 0, 1}
    /\ exit_code = 1 => (cpc = "exit" /\ idx = 0 /\ outcome = <<>>)
    /\ (cpc = "exit" /\ idx > 0) => exit_code = 0

\* A run of two fields that both failed has returned 0.
C14_Witness ==
    /\ cpc = "exit"
    /\ outcome = <<"error", "error">>
    /\ processed = 0 /\ errors = 2
    /\ exit_code = 0

\* C15 as stated: a field whose RutaRecorte this run has set has its output
\* file at that path, with a size above zero; and a field whose processing
\* failed keeps RutaRecorte unset.
C15_PathOnlyWithVerifiedFile ==
    Loaded =>
        /\ \A key \in DOMAIN listado :
              dbUpdates[key] > 0 =>
                  /\ listado[key].RutaRecorte # None
                  /\ outFiles[listado[key].RutaRecorte] = "ok"
        /\ \A i \in 1..Len(outcome) :
              outcome[i] = "error" =>
                  listado[KeyOf(records[i])].RutaRecorte = None

\* C16 as stated: a field is handed to the failure handling as a write
\* failure only from the fallback step, that is after the secondary path
\* has been tried, however the primary encoder failed.
C16_FallbackBeforeWriteFailure ==
    [][(cpc' = "backup" /\ cause' = "write") => cpc = "fallback"]_vars

\* C18: at every point of a run, also after a later field has failed and
\* after the run has been interrupted, each field that was processed
\* successfully has its path stored, and a field none of whose jobs has
\* succeeded is as it was when the run started.
C18_CommittedPathsAreDurable ==
    Loaded =>
        /\ \A i \in 1..Len(outcome) :
              outcome[i] = "ok" =>
                  listado[KeyOf(records[i])].RutaRecorte =
                      create_hierarchical_directories(records[i])
        /\ \A key \in DOMAIN listado :
              (\A i \in JobsOf(key) : i > Len(outcome) \/ outcome[i] = "error")
                  => listado[key] = listado0[key]

\* The run was interrupted at its second field, after the first had been
\* processed successfully: the first has its path, the second has none.
C18_Witness ==
    /\ cpc = "crashed"
    /\ Len(records) = 2 /\ idx = 2
    /\ outcome = <<"ok">>
    /\ KeyOf(records[1]) # KeyOf(records[2])
    /\ listado[KeyOf(records[1])].RutaRecorte # None
    /\ listado[KeyOf(records[2])].RutaRecorte = None

----------------------------------------------------------------------------
(* The pagination run over directories that hold a subdirectory *)

\* Every directory d may hold, beside its files, the subdirectory <<d, 0>>
\* with one file; its name sorts before the names of the files.
NestedPaths == Paths \cup {<<d, 0, 1>> : d \in Dirs}

\* The tables of at most MaxFiles rows whose Ruta is one of paths.
TablesOver(paths) ==
    UNION {{TableOf(files, b) : b \in [files -> BarcodeValues]} :
              files \in {F \in SUBSET paths : Cardinality(F) <= MaxFiles}}

InitPagNested ==
    /\ codificacion \in TablesOver(NestedPaths)
    /\ txn = codificacion
    /\ pc = "main"
    /\ groups = <<>>
    /\ gi = 0 /\ fi = 0 /\ k = 0
    /\ current_page = 0
    /\ current_barcode = None
    /\ total_documents = 0
    /\ updates = <<>>
    /\ result = <<>>
    /\ CropIdle
    /\ FnIdle

SpecPagNested == InitPagNested /\ [][NextPag]_vars

\* C17 as stated: the groups are visited in ascending order of their
\* directory path and the files of a group in ascending order of their
\* path, also when a directory and one of its subdirectories hold files.
C17_GroupsInDirectoryOrder ==
    /\ \A g, h \in 1..Len(groups) :
          g < h => PathLess(groups[g].directory, groups[h].directory)
    /\ \A g \in 1..Len(groups) :
          \A i, j \in 1..Len(groups[g].files) :
              i < j => PathLess(groups[g].files[i].ruta, groups[g].files[j].ruta)

====
